---- MODULE Spec2Model ----
(***************************************************************************)
(* Lexer and parser of the Monkey front-end (danytulumidis/go-interpreter). *)
(* Characters are bytes (ASCII codes), strings are sequences of bytes.      *)
(***************************************************************************)
EXTENDS Integers, Sequences, FiniteSets, TLC

(***************************************************************************)
(* Bounds of the model.                                                     *)
(***************************************************************************)
\* longest input enumerated character by character
MaxLen == 3
\* largest number of source fragments concatenated into one input
MaxFrags == 2
\* how many times the cursor may be advanced past the end of the input
MaxOverrun == 4

(***************************************************************************)
(* Bytes.  Ord gives the ASCII code of the characters used in the inputs.   *)
(***************************************************************************)
Ord ==
  [c \in {"NUL", "\t", "\n", "\r", " ", "!", "(", ")", "+", ",", "-", ";", "=",
          "{", "}", "_", "0", "1", "2", "3", "4", "5", "6", "7", "8", "9",
          "A", "Z", "a", "e", "f", "i", "l", "n", "r", "s", "t", "u", "x", "y",
          "z", "0xC3", "0xA9"} |->
     CASE c = "NUL" -> 0   [] c = "\t" -> 9   [] c = "\n" -> 10  [] c = "\r" -> 13
       [] c = " " -> 32    [] c = "!" -> 33   [] c = "(" -> 40   [] c = ")" -> 41
       [] c = "+" -> 43    [] c = "," -> 44   [] c = "-" -> 45   [] c = ";" -> 59
       [] c = "=" -> 61    [] c = "{" -> 123  [] c = "}" -> 125  [] c = "_" -> 95
       [] c = "0" -> 48    [] c = "1" -> 49   [] c = "2" -> 50   [] c = "3" -> 51
       [] c = "4" -> 52    [] c = "5" -> 53   [] c = "6" -> 54   [] c = "7" -> 55
       [] c = "8" -> 56    [] c = "9" -> 57
       [] c = "A" -> 65    [] c = "Z" -> 90   [] c = "z" -> 122
       [] c = "a" -> 97    [] c = "e" -> 101  [] c = "f" -> 102  [] c = "i" -> 105
       [] c = "l" -> 108   [] c = "n" -> 110  [] c = "r" -> 114  [] c = "s" -> 115
       [] c = "t" -> 116   [] c = "u" -> 117  [] c = "x" -> 120  [] c = "y" -> 121
       [] c = "0xC3" -> 195  [] c = "0xA9" -> 169]

\* F applied to the value v, computed once
With(v, F(_)) == F(v)

\* the byte string written as a tuple of one-character strings
Bytes(s) == [i \in 1..Len(s) |-> Ord[s[i]]]

(***************************************************************************)
(* package token: kinds and the keyword table.                              *)
(***************************************************************************)
ILLEGAL == "ILLEGAL"
EOF == "EOF"
IDENT == "IDENT"
INT == "INT"
ASSIGN == "="
PLUS == "+"
MINUS == "-"
BANG == "!"
COMMA == ","
SEMICOLON == ";"
LPAREN == "("
RPAREN == ")"
LBRACE == "{"
RBRACE == "}"
FUNCTION == "FUNCTION"
LET_ == "LET"
TRUE_ == "TRUE"
FALSE_ == "FALSE"
IF_ == "IF"
ELSE_ == "ELSE"
RETURN == "RETURN"

Token(type, literal) == [Type |-> type, Literal |-> literal]

\* the zero value of token.Token
ZeroToken == Token("", <<>>)

LookupIdent(ident) ==
  CASE ident = Bytes(<<"f", "n">>) -> FUNCTION
    [] ident = Bytes(<<"l", "e", "t">>) -> LET_
    [] ident = Bytes(<<"t", "r", "u", "e">>) -> TRUE_
    [] ident = Bytes(<<"f", "a", "l", "s", "e">>) -> FALSE_
    [] ident = Bytes(<<"i", "f">>) -> IF_
    [] ident = Bytes(<<"e", "l", "s", "e">>) -> ELSE_
    [] ident = Bytes(<<"r", "e", "t", "u", "r", "n">>) -> RETURN
    [] OTHER -> IDENT

(***************************************************************************)
(* package lexer.                                                           *)
(***************************************************************************)
\* input[i] of Go, 0-based
At(input, i) == input[i + 1]

\* input[from:to] of Go
Slice(input, from, to) == SubSeq(input, from + 1, to)

\* a readChar that moves readPosition two characters on
readChar_SkipAhead(l) ==
  [l EXCEPT !.ch = IF l.readPosition >= Len(l.input) THEN 0
                   ELSE At(l.input, l.readPosition),
            !.position = l.readPosition,
            !.readPosition = l.readPosition + 2]

readChar(l) ==
  [l EXCEPT !.ch = IF l.readPosition >= Len(l.input) THEN 0
                   ELSE At(l.input, l.readPosition),
            !.position = l.readPosition,
            !.readPosition = l.readPosition + 1]

New(in) == readChar([input |-> in, position |-> 0, readPosition |-> 0, ch |-> 0])

isLetter(ch) ==
  \/ Ord["a"] <= ch /\ ch <= Ord["z"]
  \/ Ord["A"] <= ch /\ ch <= Ord["Z"]
  \/ ch = Ord["_"]

isDigit(ch) == Ord["0"] <= ch /\ ch <= Ord["9"]

isWhitespace(ch) == ch = Ord[" "] \/ ch = Ord["\t"] \/ ch = Ord["\n"] \/ ch = Ord["\r"]

RECURSIVE skipWhitespace(_)
skipWhitespace(l) == IF isWhitespace(l.ch) THEN skipWhitespace(readChar(l)) ELSE l

RECURSIVE whileLetter(_)
whileLetter(l) == IF isLetter(l.ch) THEN whileLetter(readChar(l)) ELSE l

RECURSIVE whileDigit(_)
whileDigit(l) == IF isDigit(l.ch) THEN whileDigit(readChar(l)) ELSE l

\* the lexer after the call and the string returned
readIdentifier(l) ==
  LET l2 == whileLetter(l)
  IN  [l |-> l2, lit |-> Slice(l.input, l.position, l2.position)]

readNumber(l) ==
  LET l2 == whileDigit(l)
  IN  [l |-> l2, lit |-> Slice(l.input, l.position, l2.position)]

\* string(ch) of a byte: the UTF-8 encoding of the code point ch
StringOfByte(ch) == IF ch < 128 THEN <<ch>> ELSE <<192 + (ch \div 64), 128 + (ch % 64)>>

newToken(tokenType, ch) == Token(tokenType, StringOfByte(ch))

\* the token kind of the one-character cases of the switch, "" when none
SymbolKind(ch) ==
  CASE ch = Ord["="] -> ASSIGN
    [] ch = Ord[";"] -> SEMICOLON
    [] ch = Ord["("] -> LPAREN
    [] ch = Ord[")"] -> RPAREN
    [] ch = Ord[","] -> COMMA
    [] ch = Ord["+"] -> PLUS
    [] ch = Ord["{"] -> LBRACE
    [] ch = Ord["}"] -> RBRACE
    [] OTHER -> ""

\* the lexer after the call and the token returned
NextToken(l0) ==
  LET l == skipWhitespace(l0)
  IN  IF SymbolKind(l.ch) # ""
        THEN [l |-> readChar(l), tok |-> newToken(SymbolKind(l.ch), l.ch)]
      ELSE IF l.ch = 0
        THEN [l |-> readChar(l), tok |-> Token(EOF, <<>>)]
      ELSE IF isLetter(l.ch)
        THEN LET r == readIdentifier(l)
             IN  [l |-> r.l, tok |-> Token(LookupIdent(r.lit), r.lit)]
      ELSE IF isDigit(l.ch)
        THEN LET r == readNumber(l)
             IN  [l |-> r.l, tok |-> Token(INT, r.lit)]
      ELSE [l |-> readChar(l), tok |-> newToken(ILLEGAL, l.ch)]

(***************************************************************************)
(* strconv.ParseInt(s, 0, 64) on the 64-bit values of Go.  A number is the  *)
(* sequence of its decimal digits, most significant first, without leading  *)
(* zeros (zero is <<0>>).                                                   *)
(***************************************************************************)
MaxInt64 == <<9, 2, 2, 3, 3, 7, 2, 0, 3, 6, 8, 5, 4, 7, 7, 5, 8, 0, 7>>
MaxUint64 == <<1, 8, 4, 4, 6, 7, 4, 4, 0, 7, 3, 7, 0, 9, 5, 5, 1, 6, 1, 5>>

Reverse(s) == [i \in 1..Len(s) |-> s[Len(s) + 1 - i]]

RECURSIVE BigLess(_, _)
BigLess(a, b) ==
  IF Len(a) # Len(b) THEN Len(a) < Len(b)
  ELSE IF a = <<>> THEN FALSE
  ELSE IF Head(a) # Head(b) THEN Head(a) < Head(b)
  ELSE BigLess(Tail(a), Tail(b))

\* least significant digit first: ds * base + carry
RECURSIVE MulAddLE(_, _, _)
MulAddLE(ds, base, carry) ==
  IF ds = <<>>
    THEN IF carry = 0 THEN <<>> ELSE <<carry % 10>> \o MulAddLE(<<>>, base, carry \div 10)
    ELSE LET v == Head(ds) * base + carry
         IN  <<v % 10>> \o MulAddLE(Tail(ds), base, v \div 10)

\* n * base + d
BigMulAdd(n, base, d) ==
  LET r == Reverse(MulAddLE(Reverse(IF n = <<0>> THEN <<>> ELSE n), base, d))
  IN  IF r = <<>> THEN <<0>> ELSE r

\* the digit loop of ParseUint: the value, or the error met
RECURSIVE ParseUintLoop(_, _, _)
ParseUintLoop(s, base, n) ==
  IF s = <<>> THEN [n |-> n, err |-> "nil"]
  ELSE IF ~isDigit(Head(s)) THEN [n |-> <<0>>, err |-> "ErrSyntax"]
  ELSE LET d == Head(s) - Ord["0"]
           n1 == BigMulAdd(n, base, d)
       IN  IF d >= base THEN [n |-> <<0>>, err |-> "ErrSyntax"]
           ELSE IF BigLess(MaxUint64, n1) THEN [n |-> MaxUint64, err |-> "ErrRange"]
           ELSE ParseUintLoop(Tail(s), base, n1)

\* base 0: a leading "0" selects base 8 (a digit run has no 0x, 0b or 0o prefix)
ParseUint0(s) ==
  IF s = <<>> THEN [n |-> <<0>>, err |-> "ErrSyntax"]
  ELSE IF Head(s) = Ord["0"] THEN ParseUintLoop(Tail(s), 8, <<0>>)
  ELSE ParseUintLoop(s, 10, <<0>>)

\* strconv.ParseInt(s, 0, 64) of a string without sign
ParseInt0(s) ==
  LET r == ParseUint0(s)
  IN  IF r.err # "nil" THEN r
      ELSE IF BigLess(MaxInt64, r.n) THEN [n |-> MaxInt64, err |-> "ErrRange"]
      ELSE r

(***************************************************************************)
(* package ast.  A pointer is <<>> (nil) or <<struct>>; an interface value  *)
(* is its dynamic type and its pointer, the nil interface has no type.      *)
(***************************************************************************)
NilPtr == <<>>
Ptr(struct) == <<struct>>
Iface(type, ptr) == [type |-> type, ptr |-> ptr]
NilIface == Iface("", NilPtr)

(***************************************************************************)
(* package parser.  A parser is [l, errors, curToken, peekToken]; every     *)
(* method yields the parser after the call beside its result.               *)
(***************************************************************************)
LOWEST == 1
EQUALS == 2
LESSGREATER == 3
SUM == 4
PRODUCT == 5
PREFIX == 6
CALL == 7

\* fmt.Sprintf: the format with its arguments
Sprintf(format, args) == [format |-> format, args |-> args]

\* the %q verb on a run of digits
Quote(literal) == <<34>> \o literal \o <<34>>

\* the handler registered for each token kind by New
prefixParseFns ==
  [t \in {IDENT, INT, BANG, MINUS} |->
     CASE t = IDENT -> "parseIdentifier"
       [] t = INT -> "parseIntegerLiteral"
       [] t = BANG -> "parsePrefixExpression"
       [] t = MINUS -> "parsePrefixExpression"]

\* a nextToken that drops the peek token and reads both tokens from the lexer
nextToken_SkipOne(p) ==
  With(NextToken(p.l), LAMBDA r1 :
    With(NextToken(r1.l), LAMBDA r2 :
      [p EXCEPT !.curToken = r1.tok, !.peekToken = r2.tok, !.l = r2.l]))

nextToken(p) ==
  With(NextToken(p.l),
       LAMBDA r : [p EXCEPT !.curToken = p.peekToken, !.peekToken = r.tok, !.l = r.l])

NewParser(l) ==
  nextToken(nextToken([l |-> l, errors |-> <<>>,
                       curToken |-> ZeroToken, peekToken |-> ZeroToken]))

Errors(p) == p.errors

curTokenIs(p, t) == p.curToken.Type = t

peekTokenIs(p, t) == p.peekToken.Type = t

\* a peekError that starts the list again instead of appending to it
peekError_Overwrite(p, t) ==
  [p EXCEPT !.errors =
     <<Sprintf("expected next token to be %s, got %s instead", <<t, p.peekToken.Type>>)>>]

peekError(p, t) ==
  [p EXCEPT !.errors =
     Append(@, Sprintf("expected next token to be %s, got %s instead",
                       <<t, p.peekToken.Type>>))]

\* an expectPeek that moves on to the next token also when the kind is wrong
expectPeek_AdvanceAnyway(p, t) ==
  IF peekTokenIs(p, t)
    THEN [p |-> nextToken(p), ok |-> TRUE]
    ELSE [p |-> nextToken(peekError(p, t)), ok |-> FALSE]

expectPeek(p, t) ==
  IF peekTokenIs(p, t)
    THEN [p |-> nextToken(p), ok |-> TRUE]
    ELSE [p |-> peekError(p, t), ok |-> FALSE]

\* a noPrefixParseFnError that records nothing
noPrefixParseFnError_Silent(p, t) == p

noPrefixParseFnError(p, t) ==
  [p EXCEPT !.errors = Append(@, Sprintf("no prefix parse function for %s found", <<t>>))]

parseIdentifier(p) ==
  [p |-> p,
   expr |-> Iface("*ast.Identifier",
                  Ptr([Token |-> p.curToken, Value |-> p.curToken.Literal]))]

parseIntegerLiteral(p) ==
  With(ParseInt0(p.curToken.Literal), LAMBDA r :
    IF r.err # "nil"
      THEN [p |-> [p EXCEPT !.errors =
                     Append(@, Sprintf("could not parse %q as integer",
                                       <<Quote(p.curToken.Literal)>>))],
            expr |-> NilIface]
      ELSE [p |-> p,
            expr |-> Iface("*ast.IntegerLiteral",
                           Ptr([Token |-> p.curToken, Value |-> r.n]))])

RECURSIVE parseExpression(_, _)
RECURSIVE parsePrefixExpression(_)

parsePrefixExpression(p) ==
  With(parseExpression(nextToken(p), PREFIX), LAMBDA r :
    [p |-> r.p,
     expr |-> Iface("*ast.PrefixExpression",
                    Ptr([Token |-> p.curToken, Operator |-> p.curToken.Literal,
                         Right |-> r.expr]))])

parseExpression(p, precedence) ==
  IF p.curToken.Type \notin DOMAIN prefixParseFns
    THEN [p |-> noPrefixParseFnError(p, p.curToken.Type), expr |-> NilIface]
    ELSE CASE prefixParseFns[p.curToken.Type] = "parseIdentifier" -> parseIdentifier(p)
           [] prefixParseFns[p.curToken.Type] = "parseIntegerLiteral" -> parseIntegerLiteral(p)
           [] prefixParseFns[p.curToken.Type] = "parsePrefixExpression" -> parsePrefixExpression(p)

parseExpressionStatement(p) ==
  With(parseExpression(p, LOWEST), LAMBDA r :
    [p |-> IF peekTokenIs(r.p, SEMICOLON) THEN nextToken(r.p) ELSE r.p,
     stmt |-> Ptr([Token |-> p.curToken, Expression |-> r.expr])])

\* parseLetStatement up to its loop: the statement built so far, or the nil
\* pointer returned when an expectPeek fails (loop tells which)
parseLetStatementHead(p) ==
  With(expectPeek(p, IDENT), LAMBDA r1 :
    IF ~r1.ok THEN [p |-> r1.p, stmt |-> NilPtr, loop |-> FALSE]
    ELSE With(expectPeek(r1.p, ASSIGN), LAMBDA r2 :
      IF ~r2.ok THEN [p |-> r2.p, stmt |-> NilPtr, loop |-> FALSE]
      ELSE [p |-> r2.p,
            stmt |-> Ptr([Token |-> p.curToken,
                          Name |-> Ptr([Token |-> r1.p.curToken,
                                        Value |-> r1.p.curToken.Literal]),
                          Value |-> NilIface]),
            loop |-> TRUE]))

\* parseReturnStatement up to its loop
parseReturnStatementHead(p) ==
  [p |-> nextToken(p), stmt |-> Ptr([Token |-> p.curToken])]

\* a loop body that puts the new statement in front of the earlier ones
appendAndAdvance_Prepend(statements, p, stmt) ==
  [Statements |-> IF stmt # NilIface THEN <<stmt>> \o statements ELSE statements,
   p |-> nextToken(p)]

\* the rest of the body of ParseProgram's loop once parseStatement has
\* returned stmt: the statement sequence and the parser after it
appendAndAdvance(statements, p, stmt) ==
  [Statements |-> IF stmt # NilIface THEN Append(statements, stmt) ELSE statements,
   p |-> nextToken(p)]

\* parseStatement returns its *ast.LetStatement, *ast.ReturnStatement or
\* *ast.ExpressionStatement as an ast.Statement: the interface value has
\* the pointer's type also when the pointer is nil
asStatement(type, ptr) == Iface(type, ptr)

(***************************************************************************)
(* The inputs: every string over Alphabet up to MaxLen characters, and      *)
(* every concatenation of up to MaxFrags of the source fragments.           *)
(***************************************************************************)
Alphabet == {Ord[c] : c \in {"l", "e", "t", " ", "=", ";", "0", "8", "-", "NUL"}}

CharInputs == UNION {[1..n -> Alphabet] : n \in 0..MaxLen}

Fragments ==
  { Bytes(<<"l", "e", "t", " ", "x", "=", "5", ";">>),
    Bytes(<<"l", "e", "t", " ", "y", " ", "=", " ", "x", " ", "1", ";">>),
    Bytes(<<"l", "e", "t", " ", "x", " ", "5", ";">>),
    Bytes(<<"l", "e", "t", " ", "5", "=", "x", ";">>),
    Bytes(<<"l", "e", "t", " ", "x", "=", "5">>),
    Bytes(<<"r", "e", "t", "u", "r", "n", " ", "5", ";">>),
    Bytes(<<"r", "e", "t", "u", "r", "n", " ", "x">>),
    Bytes(<<"x">>),
    Bytes(<<"y", ";">>),
    Bytes(<<"5", ";">>),
    Bytes(<<"-", "5">>),
    Bytes(<<"-", "-", "5">>),
    Bytes(<<"!", "x", ";">>),
    Bytes(<<"0", "1", "0", " ">>),
    Bytes(<<"0", "8", ";">>),
    Bytes(<<"9", "2", "2", "3", "3", "7", "2", "0", "3", "6", "8", "5", "4", "7",
            "7", "5", "8", "0", "7">>),
    Bytes(<<"9", "2", "2", "3", "3", "7", "2", "0", "3", "6", "8", "5", "4", "7",
            "7", "5", "8", "0", "8", ";">>),
    Bytes(<<"0", "7", "7", "7", "7", "7", "7", "7", "7", "7", "7", "7", "7", "7",
            "7", "7", "7", "7", "7", "7", "7">>),
    Bytes(<<"0xC3", "0xA9", "x">>),
    Bytes(<<" ">>) }

RECURSIVE FragInputs(_)
FragInputs(n) ==
  IF n = 0 THEN {<<>>}
  ELSE {<<>>} \cup {f \o r : f \in Fragments, r \in FragInputs(n - 1)}

Inputs == CharInputs \cup FragInputs(MaxFrags)

(***************************************************************************)
(* The state.  A run either drains a lexer token by token (pc "NextToken")  *)
(* or parses the input (pc "ParseProgram" and the loops below it).  Under   *)
(* TwoLexerSpec two lexers of the same input are drained in any order.      *)
(***************************************************************************)
VARIABLES
  input,    \* the source text
  l,        \* the lexer drained by NextToken calls
  toks,     \* the tokens those calls have returned, in order
  l2,       \* a second lexer constructed from the same input
  toks2,    \* the tokens the second lexer has returned, in order
  p,        \* the parser (with its own lexer p.l)
  program,  \* the ast.Program under construction
  stmt,     \* the statement a skip-to-semicolon loop will return
  pc        \* where the run stands

vars == <<input, l, toks, l2, toks2, p, program, stmt, pc>>

Init ==
  /\ input \in Inputs
  /\ pc \in {"NextToken", "ParseProgram"}
  /\ l = New(input)
  /\ toks = <<>>
  /\ l2 = New(input)
  /\ toks2 = <<>>
  /\ p = NewParser(New(input))
  /\ program = [Statements |-> <<>>]
  /\ stmt = NilPtr

\* the cursor has not run further past the end than the model follows it
WithinOverrun(lx) == lx.position < Len(lx.input) + MaxOverrun

\* one call of l.NextToken()
CallNextToken ==
  /\ pc = "NextToken"
  /\ WithinOverrun(l)
  /\ LET r == NextToken(l)
     IN  /\ l' = r.l
         /\ toks' = Append(toks, r.tok)
  /\ UNCHANGED <<input, l2, toks2, p, program, stmt, pc>>

\* a NextToken call on the second lexer that reads and moves the cursor of the first
CallNextToken2_SharedCursor ==
  /\ pc = "NextToken"
  /\ WithinOverrun(l)
  /\ LET r == NextToken(l)
     IN  /\ l' = r.l
         /\ l2' = r.l
         /\ toks2' = Append(toks2, r.tok)
  /\ UNCHANGED <<input, toks, p, program, stmt, pc>>

\* one call of NextToken() on the second lexer
CallNextToken2 ==
  /\ pc = "NextToken"
  /\ WithinOverrun(l2)
  /\ LET r == NextToken(l2)
     IN  /\ l2' = r.l
         /\ toks2' = Append(toks2, r.tok)
  /\ UNCHANGED <<input, l, toks, p, program, stmt, pc>>

\* ParseProgram's loop on a LET token, up to the loop of parseLetStatement
ParseLet ==
  /\ pc = "ParseProgram"
  /\ curTokenIs(p, LET_)
  /\ LET r == parseLetStatementHead(p)
         a == appendAndAdvance(program.Statements, r.p,
                               asStatement("*ast.LetStatement", r.stmt))
     IN  /\ p' = IF r.loop THEN r.p ELSE a.p
         /\ stmt' = IF r.loop THEN r.stmt ELSE NilPtr
         /\ pc' = IF r.loop THEN "parseLetStatement" ELSE "ParseProgram"
         /\ program' = IF r.loop THEN program
                       ELSE [program EXCEPT !.Statements = a.Statements]
  /\ UNCHANGED <<input, l, toks, l2, toks2>>

\* one iteration of the loop of parseLetStatement
LetSkip ==
  /\ pc = "parseLetStatement"
  /\ ~curTokenIs(p, SEMICOLON)
  /\ WithinOverrun(p.l)
  /\ p' = nextToken(p)
  /\ UNCHANGED <<input, l, toks, l2, toks2, program, stmt, pc>>

\* parseLetStatement leaves its loop and returns to ParseProgram's loop
LetReturn ==
  /\ pc = "parseLetStatement"
  /\ curTokenIs(p, SEMICOLON)
  /\ LET a == appendAndAdvance(program.Statements, p,
                               asStatement("*ast.LetStatement", stmt))
     IN  /\ p' = a.p
         /\ program' = [program EXCEPT !.Statements = a.Statements]
  /\ stmt' = NilPtr
  /\ pc' = "ParseProgram"
  /\ UNCHANGED <<input, l, toks, l2, toks2>>

\* ParseProgram's loop on a RETURN token, up to the loop of parseReturnStatement
ParseReturn ==
  /\ pc = "ParseProgram"
  /\ curTokenIs(p, RETURN)
  /\ LET r == parseReturnStatementHead(p)
     IN  /\ p' = r.p
         /\ stmt' = r.stmt
  /\ pc' = "parseReturnStatement"
  /\ UNCHANGED <<input, l, toks, l2, toks2, program>>

\* one iteration of the loop of parseReturnStatement
ReturnSkip ==
  /\ pc = "parseReturnStatement"
  /\ ~curTokenIs(p, SEMICOLON)
  /\ WithinOverrun(p.l)
  /\ p' = nextToken(p)
  /\ UNCHANGED <<input, l, toks, l2, toks2, program, stmt, pc>>

\* parseReturnStatement leaves its loop and returns to ParseProgram's loop
ReturnReturn ==
  /\ pc = "parseReturnStatement"
  /\ curTokenIs(p, SEMICOLON)
  /\ LET a == appendAndAdvance(program.Statements, p,
                               asStatement("*ast.ReturnStatement", stmt))
     IN  /\ p' = a.p
         /\ program' = [program EXCEPT !.Statements = a.Statements]
  /\ stmt' = NilPtr
  /\ pc' = "ParseProgram"
  /\ UNCHANGED <<input, l, toks, l2, toks2>>

\* ParseProgram's loop on any other token
ParseExpressionStatement ==
  /\ pc = "ParseProgram"
  /\ ~curTokenIs(p, EOF)
  /\ ~curTokenIs(p, LET_)
  /\ ~curTokenIs(p, RETURN)
  /\ LET r == parseExpressionStatement(p)
         a == appendAndAdvance(program.Statements, r.p,
                               asStatement("*ast.ExpressionStatement", r.stmt))
     IN  /\ p' = a.p
         /\ program' = [program EXCEPT !.Statements = a.Statements]
  /\ stmt' = NilPtr
  /\ pc' = "ParseProgram"
  /\ UNCHANGED <<input, l, toks, l2, toks2>>

\* ParseProgram leaves its loop and returns the program
ProgramReturn ==
  /\ pc = "ParseProgram"
  /\ curTokenIs(p, EOF)
  /\ pc' = "done"
  /\ UNCHANGED <<input, l, toks, l2, toks2, p, program, stmt>>

Next ==
  \/ CallNextToken
  \/ ParseLet
  \/ LetSkip
  \/ LetReturn
  \/ ParseReturn
  \/ ReturnSkip
  \/ ReturnReturn
  \/ ParseExpressionStatement
  \/ ProgramReturn

Spec == Init /\ [][Next]_vars

\* a call that can be made is made
FairSpec == Spec /\ WF_vars(Next)

\* the inputs on which two lexers are drained side by side
TwoLexerInputs == CharInputs \cup Fragments

TwoLexerInit ==
  /\ Init
  /\ input \in TwoLexerInputs
  /\ pc = "NextToken"

TwoLexerNext ==
  \/ CallNextToken
  \/ CallNextToken2

TwoLexerSpec == TwoLexerInit /\ [][TwoLexerNext]_vars

(***************************************************************************)
(* Vocabulary of the properties.                                            *)
(***************************************************************************)
SkipLoops == {"parseLetStatement", "parseReturnStatement"}

\* the lexer has passed the end of the input and the parser holds EOF twice
AtEndOfInput ==
  /\ curTokenIs(p, EOF)
  /\ peekTokenIs(p, EOF)
  /\ p.l.position > Len(input)

IsPrefix(s, t) == Len(s) <= Len(t) /\ SubSeq(t, 1, Len(s)) = s

RECURSIVE Concat(_)
Concat(ss) == IF ss = <<>> THEN <<>> ELSE Head(ss) \o Concat(Tail(ss))

Literals(ts) == [i \in 1..Len(ts) |-> ts[i].Literal]

\* the tokens of an input up to the EOF met at its end
RECURSIVE Drain(_)
Drain(lx) ==
  With(NextToken(lx), LAMBDA r :
    IF r.tok.Type = EOF /\ r.l.position > Len(lx.input) THEN <<>>
    ELSE <<r.tok>> \o Drain(r.l))

TokensOf(in) == Drain(New(in))

\* C1 (ParseProgram terminates: a skip-to-semicolon loop that has reached the
\* end of the input stops there): a step taken in a skip loop whose current
\* token is the EOF of the end of the input leaves the loop.
C1_SkipLoopStopsAtEOF ==
  [][(pc \in SkipLoops /\ AtEndOfInput) => pc' \notin SkipLoops]_vars

\* C2 (EOF is absorbing): every token returned after a token of kind EOF is
\* the EOF token with empty literal.
C2_EOFAbsorbing ==
  \A i, j \in 1..Len(toks) :
    (i < j /\ toks[i].Type = EOF) => toks[j] = Token(EOF, <<>>)

\* C3 (a statement attempt that returns no node appends nothing, its
\* diagnostic stays): a step of ParseProgram's loop on a LET token that records
\* a diagnostic keeps the diagnostics before it and leaves Program.Statements
\* as it was.
C3_FailedLetNotAppended ==
  [][(pc = "ParseProgram" /\ curTokenIs(p, LET_) /\ Errors(p') # Errors(p))
       => /\ IsPrefix(Errors(p), Errors(p'))
          /\ program'.Statements = program.Statements]_vars

MinusToken == Token(MINUS, Bytes(<<"-">>))

FiveLiteral ==
  Iface("*ast.IntegerLiteral", Ptr([Token |-> Token(INT, Bytes(<<"5">>)), Value |-> <<5>>]))

PrefixMinus(right) ==
  Iface("*ast.PrefixExpression",
        Ptr([Token |-> MinusToken, Operator |-> Bytes(<<"-">>), Right |-> right]))

ExpressionStatementOf(tok, expr) ==
  Iface("*ast.ExpressionStatement", Ptr([Token |-> tok, Expression |-> expr]))

\* C4 (prefix operators work end to end): the program returned for "-5" is
\* one ExpressionStatement of PrefixExpression("-", IntegerLiteral 5), the one
\* for "--5" nests two of them, and neither records a diagnostic.
C4_PrefixEndToEnd ==
  /\ (pc = "done" /\ input = Bytes(<<"-", "5">>))
       => /\ program.Statements =
               <<ExpressionStatementOf(MinusToken, PrefixMinus(FiveLiteral))>>
          /\ Errors(p) = <<>>
  /\ (pc = "done" /\ input = Bytes(<<"-", "-", "5">>))
       => /\ program.Statements =
               <<ExpressionStatementOf(MinusToken, PrefixMinus(PrefixMinus(FiveLiteral)))>>
          /\ Errors(p) = <<>>

\* the statement a well-formed let-statement parses to
LetStatementOf(letTok, identTok) ==
  Iface("*ast.LetStatement",
        Ptr([Token |-> letTok,
             Name |-> Ptr([Token |-> identTok, Value |-> identTok.Literal]),
             Value |-> NilIface]))

\* the index of the first SEMICOLON of ts
FirstSemicolon(ts) ==
  CHOOSE k \in 1..Len(ts) :
    ts[k].Type = SEMICOLON /\ \A j \in 1..(k - 1) : ts[j].Type # SEMICOLON

AfterFirstSemicolon(ts) == SubSeq(ts, FirstSemicolon(ts) + 1, Len(ts))

\* ts is a sequence of statements  let <ident> = <tokens> ;
RECURSIVE IsLets(_)
IsLets(ts) ==
  \/ ts = <<>>
  \/ /\ Len(ts) >= 4
     /\ ts[1].Type = LET_
     /\ ts[2].Type = IDENT
     /\ ts[3].Type = ASSIGN
     /\ \E k \in 4..Len(ts) : ts[k].Type = SEMICOLON
     /\ \A j \in 4..(FirstSemicolon(ts) - 1) : ts[j].Type # EOF
     /\ IsLets(AfterFirstSemicolon(ts))

RECURSIVE ExpectedLets(_)
ExpectedLets(ts) ==
  IF ts = <<>> THEN <<>>
  ELSE <<LetStatementOf(ts[1], ts[2])>> \o ExpectedLets(AfterFirstSemicolon(ts))

\* C5 (well-formed let-statements): for an input that is n statements
\* let <ident> = <tokens> ; no skip loop runs into the end of the input, and
\* the program returned holds exactly the n LetStatements, in source order,
\* each named by its identifier, with no diagnostic.
C5_WellFormedLets ==
  IsLets(TokensOf(input)) =>
    /\ ~(pc \in SkipLoops /\ AtEndOfInput)
    /\ pc = "done" =>
         /\ program.Statements = ExpectedLets(TokensOf(input))
         /\ Errors(p) = <<>>

\* two well-formed let-statements have been parsed
C5_Witness ==
  /\ pc = "done"
  /\ IsLets(TokensOf(input))
  /\ Len(program.Statements) = 2
  /\ program.Statements[1] # program.Statements[2]

\* ts is a sequence of statements  let <ident> <tokens> ;  without "="
RECURSIVE IsBrokenLets(_)
IsBrokenLets(ts) ==
  \/ ts = <<>>
  \/ /\ Len(ts) >= 3
     /\ ts[1].Type = LET_
     /\ ts[2].Type = IDENT
     /\ ts[3].Type # ASSIGN
     /\ \E k \in 3..Len(ts) : ts[k].Type = SEMICOLON
     /\ \A j \in 3..(FirstSemicolon(ts) - 1) : ts[j].Type \notin {EOF, LET_, RETURN}
     /\ IsBrokenLets(AfterFirstSemicolon(ts))

RECURSIVE ExpectedPeekErrors(_)
ExpectedPeekErrors(ts) ==
  IF ts = <<>> THEN <<>>
  ELSE <<Sprintf("expected next token to be %s, got %s instead", <<ASSIGN, ts[3].Type>>)>>
         \o ExpectedPeekErrors(AfterFirstSemicolon(ts))

\* an unexpected-token diagnostic of expectPeek(ASSIGN)
IsAssignPeekError(e) ==
  e.format = "expected next token to be %s, got %s instead" /\ e.args[1] = ASSIGN

\* C6 (error accumulation): for an input that is k let-statements lacking
\* "=", the pass enters no skip loop and at its end Errors() holds the k
\* diagnostics "expected next token to be =, got ... instead", in source order;
\* and no step of any run removes or reorders a recorded diagnostic.
C6_ErrorAccumulation ==
  /\ [](IsBrokenLets(TokensOf(input)) =>
          /\ pc \notin SkipLoops
          /\ pc = "done" =>
               SelectSeq(Errors(p), IsAssignPeekError)
                 = ExpectedPeekErrors(TokensOf(input)))
  /\ [][IsPrefix(Errors(p), Errors(p'))]_vars

\* two let-statements lacking "=" have been parsed
C6_Witness ==
  /\ pc = "done"
  /\ IsBrokenLets(TokensOf(input))
  /\ Len(SelectSeq(Errors(p), IsAssignPeekError)) = 2

(***************************************************************************)
(* Integer literals: the base-10 value of a digit run.                      *)
(***************************************************************************)
RECURSIVE StripZeros(_)
StripZeros(ds) == IF Len(ds) > 1 /\ Head(ds) = 0 THEN StripZeros(Tail(ds)) ELSE ds

Base10Value(literal) == StripZeros([i \in 1..Len(literal) |-> literal[i] - Ord["0"]])

FitsInt64(n) == ~BigLess(MaxInt64, n)

IntegerLiteralOf(tok) ==
  Iface("*ast.IntegerLiteral", Ptr([Token |-> tok, Value |-> Base10Value(tok.Literal)]))

IntegerDiagnostic(literal) ==
  Sprintf("could not parse %q as integer", <<Quote(literal)>>)

\* C7 (integer literals are base 10): every expression statement parsed at
\* an INT token whose base-10 value fits 64 bits holds the IntegerLiteral of
\* that value, and no diagnostic names its literal.
C7_Base10Value ==
  \A i \in 1..Len(program.Statements) :
    LET s == program.Statements[i]
    IN  (/\ s.type = "*ast.ExpressionStatement"
         /\ s.ptr[1].Token.Type = INT
         /\ FitsInt64(Base10Value(s.ptr[1].Token.Literal)))
          => /\ s.ptr[1].Expression = IntegerLiteralOf(s.ptr[1].Token)
             /\ \A k \in 1..Len(Errors(p)) :
                  Errors(p)[k] # IntegerDiagnostic(s.ptr[1].Token.Literal)

\* C8 (integer overflow): at an INT token whose base-10 value is outside the
\* signed 64-bit range parseIntegerLiteral yields no node and changes the
\* parser only by appending the one diagnostic naming the literal.
C8_OutOfRange ==
  (/\ pc = "ParseProgram"
   /\ curTokenIs(p, INT)
   /\ ~FitsInt64(Base10Value(p.curToken.Literal)))
    => /\ parseIntegerLiteral(p).expr = NilIface
       /\ parseIntegerLiteral(p).p =
            [p EXCEPT !.errors = Append(@, IntegerDiagnostic(p.curToken.Literal))]

\* the input without its whitespace
NoWhitespace(in) == SelectSeq(in, LAMBDA ch : ~isWhitespace(ch))

\* the tokens returned before the first EOF token
BeforeEOF(ts) ==
  IF \E k \in 1..Len(ts) : ts[k].Type = EOF
    THEN SubSeq(ts, 1, (CHOOSE k \in 1..Len(ts) :
                          ts[k].Type = EOF /\ \A j \in 1..(k - 1) : ts[j].Type # EOF) - 1)
    ELSE ts

Min(a, b) == IF a < b THEN a ELSE b

\* C9 (literals are the input): as long as no EOF token was returned the
\* literals returned so far, concatenated, are the characters consumed so far
\* without their whitespace, and once the first EOF token is returned the
\* literals before it are the whole input without its whitespace.
C9_LiteralsCoverInput ==
  pc = "NextToken" =>
    /\ (\A k \in 1..Len(toks) : toks[k].Type # EOF) =>
         Concat(Literals(toks))
           = NoWhitespace(SubSeq(input, 1, Min(l.position, Len(input))))
    /\ (\E k \in 1..Len(toks) : toks[k].Type = EOF) =>
         Concat(Literals(BeforeEOF(toks))) = NoWhitespace(input)

\* ts is identifiers and integers that fit 64 bits, each followed by at most
\* one semicolon
IsExpressions(ts) ==
  /\ \A i \in 1..Len(ts) :
       \/ ts[i].Type = IDENT
       \/ ts[i].Type = INT /\ FitsInt64(Base10Value(ts[i].Literal))
       \/ ts[i].Type = SEMICOLON /\ i > 1 /\ ts[i - 1].Type # SEMICOLON

IdentifierOf(tok) ==
  Iface("*ast.Identifier", Ptr([Token |-> tok, Value |-> tok.Literal]))

RECURSIVE ExpectedExpressions(_)
ExpectedExpressions(ts) ==
  IF ts = <<>> THEN <<>>
  ELSE IF Head(ts).Type = SEMICOLON THEN ExpectedExpressions(Tail(ts))
  ELSE <<ExpressionStatementOf(Head(ts), IF Head(ts).Type = IDENT
                                           THEN IdentifierOf(Head(ts))
                                           ELSE IntegerLiteralOf(Head(ts)))>>
         \o ExpectedExpressions(Tail(ts))

\* C10 (optional semicolons): for an input that is n identifiers or integers,
\* each followed by at most one semicolon, the program returned is the n
\* ExpressionStatements wrapping them, in source order, with no diagnostic.
C10_OptionalSemicolons ==
  (pc = "done" /\ IsExpressions(TokensOf(input))) =>
    /\ program.Statements = ExpectedExpressions(TokensOf(input))
    /\ Errors(p) = <<>>

\* ch is no whitespace, letter, underscore, digit, NUL or symbol of the switch
Unrecognised(ch) ==
  /\ ~isWhitespace(ch)
  /\ ~isLetter(ch)
  /\ ~isDigit(ch)
  /\ ch # 0
  /\ SymbolKind(ch) = ""

\* the input from the cursor of lx on
Rest(lx) == SubSeq(lx.input, Min(lx.position, Len(lx.input)) + 1, Len(lx.input))

\* C11 (unrecognised bytes): a NextToken call that meets, after the
\* whitespace, a byte that is unrecognised returns the ILLEGAL token whose
\* literal is that one byte, leaves the cursor one character after it, and the
\* tokens that follow are those of a lexer started on the rest of the input.
C11_IllegalByte ==
  [][(pc = "NextToken" /\ Unrecognised(skipWhitespace(l).ch))
       => /\ toks' = Append(toks, Token(ILLEGAL, <<skipWhitespace(l).ch>>))
          /\ l'.position = skipWhitespace(l).position + 1
          /\ Drain(l') = TokensOf(Rest(l'))]_vars

\* the lexer and the tokens returned after n NextToken calls on lx
RECURSIVE AfterCalls(_, _)
AfterCalls(lx, n) ==
  IF n = 0 THEN [l |-> lx, toks |-> <<>>]
  ELSE With(AfterCalls(lx, n - 1), LAMBDA a :
         With(NextToken(a.l), LAMBDA r : [l |-> r.l, toks |-> Append(a.toks, r.tok)]))

TokenKinds ==
  {ILLEGAL, EOF, IDENT, INT, ASSIGN, PLUS, MINUS, BANG, COMMA, SEMICOLON, LPAREN,
   RPAREN, LBRACE, RBRACE, FUNCTION, LET_, TRUE_, FALSE_, IF_, ELSE_, RETURN}

PeekDiagnostic(t, actual) ==
  Sprintf("expected next token to be %s, got %s instead", <<t, actual>>)

\* C13 (expectPeek): called in any state of the parser with any kind, when
\* the peek token has that kind expectPeek returns true, the current token
\* becomes the old peek token, the peek token is the lexer's next token and
\* the diagnostics are unchanged; otherwise it returns false, appends the one
\* diagnostic naming the expected and the actual kind, and leaves the two
\* tokens and the lexer as they were.
C13_ExpectPeekFrame ==
  \A t \in TokenKinds :
    With(expectPeek(p, t), LAMBDA r :
      IF p.peekToken.Type = t
        THEN /\ r.ok
             /\ r.p.curToken = p.peekToken
             /\ r.p.peekToken = NextToken(p.l).tok
             /\ r.p.l = NextToken(p.l).l
             /\ Errors(r.p) = Errors(p)
        ELSE /\ ~r.ok
             /\ Errors(r.p) = Append(Errors(p), PeekDiagnostic(t, p.peekToken.Type))
             /\ r.p.curToken = p.curToken
             /\ r.p.peekToken = p.peekToken
             /\ r.p.l = p.l)

\* a let-statement is about to call expectPeek(IDENT) with an identifier
\* ahead, after an earlier expectPeek has failed and recorded its diagnostic
C13_Witness ==
  /\ pc = "ParseProgram"
  /\ curTokenIs(p, LET_)
  /\ peekTokenIs(p, IDENT)
  /\ Errors(p) # <<>>
  /\ Errors(p)[1] = PeekDiagnostic(ASSIGN, INT)

\* readPosition is one past position, and ch is the character at position or
\* the NUL sentinel past the end
LexerInvariant(lx) ==
  /\ lx.readPosition = lx.position + 1
  /\ lx.ch = IF lx.position < Len(lx.input) THEN At(lx.input, lx.position) ELSE 0

\* lx and the lexers after each of n readChar calls on it satisfy the invariant
RECURSIVE InvariantThrough(_, _)
InvariantThrough(lx, n) ==
  /\ LexerInvariant(lx)
  /\ n > 0 => InvariantThrough(readChar(lx), n - 1)

\* C14 (cursor invariant): the lexer drained by NextToken calls, the second
\* lexer and the parser's lexer satisfy the invariant in every state, and so
\* does the lexer returned by New after every number of readChar calls up to
\* two past the end of the input.
C14_LexerInvariant ==
  /\ LexerInvariant(l)
  /\ LexerInvariant(l2)
  /\ LexerInvariant(p.l)
  /\ InvariantThrough(New(input), Len(input) + 2)

\* a lexer of an input of two or more characters has run past its end
C14_Witness ==
  /\ pc = "NextToken"
  /\ Len(input) >= 2
  /\ Len(toks) >= 2
  /\ l.position > Len(input)
  /\ l.ch = 0

\* the number of NextToken calls that take the lexer from to the cursor of to
RECURSIVE CallsBetween(_, _)
CallsBetween(from, to) ==
  IF from.position >= to.position THEN 0
  ELSE 1 + CallsBetween(NextToken(from).l, to)

\* the parser's window is on the tokens n - 1 and n of the lexer's output, the
\* lexer stands after its n-th call, and one more nextToken moves the window
\* to the tokens n and n + 1
WindowAt(n) ==
  With(AfterCalls(New(input), n), LAMBDA a :
    With(AfterCalls(a.l, 1), LAMBDA b :
      /\ p.l = a.l
      /\ p.curToken = a.toks[n - 1]
      /\ p.peekToken = a.toks[n]
      /\ nextToken(p) = [p EXCEPT !.curToken = a.toks[n], !.peekToken = b.toks[1],
                                  !.l = b.l]))

\* C15 (token window): in every state of the parser curToken and peekToken
\* are two consecutive tokens of the output of a lexer of the input, the last
\* two the parser's lexer has returned (the first and the second after New),
\* and nextToken moves the window on by exactly one token.
C15_TokenWindow ==
  /\ CallsBetween(New(input), p.l) >= 2
  /\ WindowAt(CallsBetween(New(input), p.l))
  /\ With(AfterCalls(New(input), 2), LAMBDA a :
       NewParser(New(input)) =
         [l |-> a.l, errors |-> <<>>, curToken |-> a.toks[1], peekToken |-> a.toks[2]])

\* the skip loop of a let-statement has moved the window onto  5 ;
C15_Witness ==
  /\ pc = "parseLetStatement"
  /\ curTokenIs(p, INT)
  /\ peekTokenIs(p, SEMICOLON)
  /\ WindowAt(5)

\* ParseProgram is about to parse an expression statement at a token whose
\* kind has no prefix handler
NoPrefixAhead ==
  /\ pc = "ParseProgram"
  /\ p.curToken.Type \notin {EOF, LET_, RETURN}
  /\ p.curToken.Type \notin DOMAIN prefixParseFns

NoPrefixDiagnostic(t) == Sprintf("no prefix parse function for %s found", <<t>>)

\* C16 (no prefix handler): parseExpression called at a token without prefix
\* handler yields no expression and changes the parser only by appending the
\* one diagnostic naming the kind; the step of ParseProgram that made the call
\* goes on at the token that follows (after the semicolon when one follows);
\* and from there ParseProgram reaches EOF and returns: once such a diagnostic
\* is recorded, a skip loop whose current token is the EOF of the end of the
\* input is left by its next step.
C16_NoPrefixHandler ==
  /\ [](NoPrefixAhead =>
          parseExpression(p, LOWEST) =
            [p |-> [p EXCEPT !.errors = Append(@, NoPrefixDiagnostic(p.curToken.Type))],
             expr |-> NilIface])
  /\ [][NoPrefixAhead =>
          /\ pc' = "ParseProgram"
          /\ p'.curToken = IF peekTokenIs(p, SEMICOLON) THEN NextToken(p.l).tok
                           ELSE p.peekToken]_vars
  /\ [][(/\ \E k \in 1..Len(Errors(p)) :
               Errors(p)[k].format = "no prefix parse function for %s found"
           /\ pc \in SkipLoops
           /\ AtEndOfInput)
          => pc' \notin SkipLoops]_vars

\* an expression that is not nil, down to the operands of its prefix operators
RECURSIVE CompleteExpression(_)
CompleteExpression(e) ==
  /\ e # NilIface
  /\ e.ptr # NilPtr
  /\ e.type = "*ast.PrefixExpression" => CompleteExpression(e.ptr[1].Right)

\* a statement that is not nil (nor a nil pointer as a Statement), with its
\* Name when it is a LetStatement and its Expression when an ExpressionStatement
CompleteStatement(s) ==
  /\ s # NilIface
  /\ s.ptr # NilPtr
  /\ s.type = "*ast.LetStatement" => s.ptr[1].Name # NilPtr
  /\ s.type = "*ast.ExpressionStatement" => CompleteExpression(s.ptr[1].Expression)

\* C17 (no diagnostic, complete program): when ParseProgram has returned and
\* Errors() is empty every statement of the Program is complete; and
\* parsePrefixExpression, called in any state of the parser, yields a
\* PrefixExpression with a complete Right operand or records a diagnostic.
C17_NoErrorsComplete ==
  /\ (pc = "done" /\ Errors(p) = <<>>) =>
       \A i \in 1..Len(program.Statements) : CompleteStatement(program.Statements[i])
  /\ With(parsePrefixExpression(p), LAMBDA r :
       \/ CompleteExpression(r.expr)
       \/ /\ Errors(r.p) # Errors(p)
          /\ IsPrefix(Errors(p), Errors(r.p)))

\* a let-statement and an expression statement have been parsed without any
\* diagnostic
C17_Witness ==
  /\ pc = "done"
  /\ Errors(p) = <<>>
  /\ \E i, j \in 1..Len(program.Statements) :
       /\ program.Statements[i].type = "*ast.LetStatement"
       /\ program.Statements[j].type = "*ast.ExpressionStatement"

====
